---- MODULE Spec2Model ----
(***************************************************************************)
(* A model of src/app.py: a Streamlit page that extracts the text of an    *)
(* uploaded PDF, answers questions about it with an extractive QA model    *)
(* and keeps a question/answer history in st.session_state.                *)
(*                                                                         *)
(* Streamlit re-executes main() from the top on every user interaction.    *)
(* One action of the model is one such rerun: the interaction that         *)
(* triggers it fixes the widget values (uploaded_file, user_question, the  *)
(* button), and Main is the whole body of main() run on them.              *)
(*                                                                         *)
(* Two defects of the file as shipped are not part of the modelled         *)
(* behaviour, since with them no rerun reaches the code the model is       *)
(* about: the call on line 128 names extract_text_from_pdf while line 6    *)
(* defines extract__text_from_pdf (the model resolves the call to the      *)
(* function of line 6), and the st.markdown( call of line 192 is never     *)
(* closed (the model reads it as closed after the string).                 *)
(* load_qa_model (lines 33-49) is taken to return a pipeline: what a call  *)
(* of that pipeline does, answer or raise, is the input Outcomes.          *)
(***************************************************************************)
EXTENDS Integers, Sequences, FiniteSets, TLC

VARIABLES
  uploaded_file,   \* value of st.file_uploader in the last rerun (line 110)
  user_question,   \* value of st.text_input in the last rerun (line 142)
  button,          \* value of st.button in the last rerun (line 150)
  session_state,   \* st.session_state: a dict, keys history and last_question
  pdf_text,        \* local pdf_text of the last rerun (line 128)
  extracted,       \* the files handed to the extractor in the last rerun
  invocations,     \* the qa_model(...) calls of the last rerun, in order
  page,            \* what the last rerun rendered
  trigger          \* the interaction that caused the last rerun

vars == <<uploaded_file, user_question, button, session_state, pdf_text,
          extracted, invocations, page, trigger>>

-----------------------------------------------------------------------------
(* Bounds of the model. *)

\* Longest history the model lets a session build.
MaxHistory == 6

\* Texts of every length up to max_length + Slack are handed to
\* answer_question in SpecTruncation.
Slack == 3

-----------------------------------------------------------------------------
(* Values. *)

\* Python's None.
None == "None"

Max(a, b) == IF a >= b THEN a ELSE b

\* The questions a user types; "" is the empty text input.
Questions == {"", "A", "B"}

\* The uploaded PDFs: the text of each page, or the error PdfReader raises.
Files == {"sky.pdf", "corrupt.pdf"}

Pdf(pdf_file) ==
  CASE pdf_file = "sky.pdf" ->
         [raises |-> FALSE, message |-> <<>>,
          pages |-> << <<"s", "k", "y", " ">>, <<"b", "l", "u", "e">> >>]
    [] pdf_file = "corrupt.pdf" ->
         [raises |-> TRUE, message |-> <<"E", "O", "F">>, pages |-> << >>]

\* What one qa_model(question=..., context=...) call does: it returns an
\* answer span with a score (here in millionths, 0 .. 1000000), or raises.
Outcomes ==
  { [raises |-> FALSE, answer |-> "blue",  score |-> 987654, message |-> ""],
    [raises |-> TRUE,  answer |-> "",      score |-> 0,      message |-> "boom"] }

-----------------------------------------------------------------------------
(* extract__text_from_pdf, lines 6-30. *)

\* The loop of lines 22-25: text += page.extract_text() for every page.
RECURSIVE ExtractPages(_, _, _)
ExtractPages(pages, page_num, text) ==
  IF page_num > Len(pages) THEN text
  ELSE ExtractPages(pages, page_num + 1, text \o pages[page_num])

\* f"Error extracting text: {str(e)}" (line 30).
ErrorExtracting(message) ==
  <<"E", "r", "r", "o", "r", " ", "e", "x", "t", "r", "a", "c", "t", "i",
    "n", "g", " ", "t", "e", "x", "t", ":", " ">> \o message

extract__text_from_pdf(pdf_file) ==
  IF Pdf(pdf_file).raises
    THEN ErrorExtracting(Pdf(pdf_file).message)
    ELSE ExtractPages(Pdf(pdf_file).pages, 1, <<>>)

-----------------------------------------------------------------------------
(* answer_question, lines 52-84. *)

\* max_length = 512 * 3 (line 66).
max_length == 512 * 3

\* context[:max_length]: the characters at offsets 0 .. max_length-1.
TruncateOffByOne(context) ==
  IF Len(context) > max_length
    THEN SubSeq(context, 2, max_length + 1)
    ELSE context

\* Lines 67-69.
Truncate(context) ==
  IF Len(context) > max_length
    THEN SubSeq(context, 1, max_length)
    ELSE context

\* round(score * 100, 2), in hundredths of a percent; score is in millionths,
\* so the value is score / 100 rounded to the nearest integer, ties to even.
Confidence(score) ==
  LET q == score \div 100
      r == score % 100
  IN  IF r > 50 \/ (r = 50 /\ q % 2 = 1) THEN q + 1 ELSE q

\* A variant that lets the model's exception escape (no except clause).
answer_questionRaises(question, context, outcome) ==
  [ answer     |-> IF outcome.raises THEN None ELSE outcome.answer,
    confidence |-> IF outcome.raises THEN 0 ELSE Confidence(outcome.score),
    raised     |-> outcome.raises,
    calls      |-> << [question |-> question, context |-> Truncate(context),
                       outcome |-> outcome] >> ]

\* The returned dict, whether an exception left the function, and the
\* qa_model calls made (line 73: one, with the truncated context).
answer_question(question, context, outcome) ==
  [ answer     |-> IF outcome.raises
                     THEN "Error: " \o outcome.message
                     ELSE outcome.answer,
    confidence |-> IF outcome.raises THEN 0 ELSE Confidence(outcome.score),
    raised     |-> FALSE,
    calls      |-> << [question |-> question, context |-> Truncate(context),
                       outcome |-> outcome] >> ]

-----------------------------------------------------------------------------
(* st.session_state. *)

\* session_state.get(key): None when the key is not set.
Get(state, key) == IF key \in DOMAIN state THEN state[key] ELSE None

\* session_state.key = value
SetKey(state, key, value) ==
  [k \in DOMAIN state \cup {key} |-> IF k = key THEN value ELSE state[k]]

\* The history list, empty while the key is not set.
History(state) == IF "history" \in DOMAIN state THEN state["history"] ELSE <<>>

-----------------------------------------------------------------------------
(* main, lines 88-199. *)

\* Python truthiness of a str-or-None value.
Truthy(s) == s # None /\ s # ""

\* Lines 150-162: the Get Answer button.
ButtonBranch(pressed, question, text, outcome) ==
  IF pressed
    THEN IF Truthy(question)
           THEN LET result == answer_question(question, text, outcome)
                IN  [ calls   |-> result.calls,
                      raised  |-> result.raised,
                      answer  |-> << [answer |-> result.answer,
                                      confidence |-> result.confidence] >>,
                      warning |-> FALSE ]
           ELSE [calls |-> <<>>, raised |-> FALSE, answer |-> <<>>,
                 warning |-> TRUE]
    ELSE [calls |-> <<>>, raised |-> FALSE, answer |-> <<>>, warning |-> FALSE]

\* A variant that resets the history on every rerun.
InitHistoryAlways(state) == SetKey(state, "history", <<>>)

\* Lines 166-167.
InitHistory(state) ==
  IF "history" \notin DOMAIN state
    THEN SetKey(state, "history", <<>>)
    ELSE state

\* Variants of the condition of line 169.
ShouldAppendNoDedup(question, state) == Truthy(question)

ShouldAppendEmpty(question, state) ==
  Get(state, "last_question") # question

\* The condition of line 169.
ShouldAppend(question, state) ==
  Truthy(question) /\ Get(state, "last_question") # question

\* A variant that appends without recording the question as the last one.
AppendEntryKeepLast(state, question, answer) ==
  SetKey(state, "history",
         Append(state["history"], [question |-> question, answer |-> answer]))

\* Lines 171-175.
AppendEntry(state, question, answer) ==
  SetKey(SetKey(state, "history",
                Append(state["history"],
                       [question |-> question, answer |-> answer])),
         "last_question", question)

\* A variant that records the entry without asking the model again.
HistoryBranchNoCall(state, question, text, outcome) ==
  IF ShouldAppend(question, state)
    THEN [ calls |-> <<>>, raised |-> FALSE,
           state |-> AppendEntry(state, question, None) ]
    ELSE [calls |-> <<>>, raised |-> FALSE, state |-> state]

\* Lines 169-175. The name result is bound by line 170, so line 173 stores
\* result['answer'].
HistoryBranch(state, question, text, outcome) ==
  IF ShouldAppend(question, state)
    THEN LET result == answer_question(question, text, outcome)
         IN  [ calls  |-> result.calls,
               raised |-> result.raised,
               state  |-> AppendEntry(state, question, result.answer) ]
    ELSE [calls |-> <<>>, raised |-> FALSE, state |-> state]

\* history[-5:]
HistoryWindow == 5

LastEntries(history) ==
  SubSeq(history, Max(1, Len(history) - HistoryWindow + 1), Len(history))

\* reversed(...)
Reversed(s) == [i \in 1 .. Len(s) |-> s[Len(s) - i + 1]]

\* A variant that numbers the entries within the displayed window.
RECURSIVE ChatLoopWindowLabels(_, _, _)
ChatLoopWindowLabels(history, shown, i) ==
  IF i >= Len(shown) THEN <<>>
  ELSE LET qa == shown[i + 1]
       IN  (IF Truthy(qa.answer)
              THEN << [label |-> Len(shown) - i,
                       question |-> qa.question, answer |-> qa.answer] >>
              ELSE <<>>)
           \o ChatLoopWindowLabels(history, shown, i + 1)

\* The loop of lines 182-186 from index i (0-based) of the reversed window.
RECURSIVE ChatLoop(_, _, _)
ChatLoop(history, shown, i) ==
  IF i >= Len(shown) THEN <<>>
  ELSE LET qa == shown[i + 1]
       IN  (IF Truthy(qa.answer)
              THEN << [label |-> Len(history) - i,
                       question |-> qa.question, answer |-> qa.answer] >>
              ELSE <<>>)
           \o ChatLoop(history, shown, i + 1)

\* Lines 179-186: the rendered chat history.
ChatHistory(history) == ChatLoop(history, Reversed(LastEntries(history)), 0)

\* A variant that skips the extractor when the file is the one of the last
\* rerun.
ExtractorCallsCached(file) == IF file = uploaded_file THEN <<>> ELSE <<file>>

\* Line 128: every rerun of the document branch calls the extractor on the
\* uploaded file.
ExtractorCalls(file) == <<file>>

\* A variant of the else branch that clears the session.
NoDocumentStateCleared(state) == [k \in {} |-> None]

\* Lines 187-199: the else branch reads and writes no key of session_state.
NoDocumentState(state) == state

\* One rerun of main() with the widget values file, question, pressed;
\* first and second are what the model does if called on line 153 and 170.
\* In the else branch the question input and the button are not created.
\* A rerun that would make the history longer than MaxHistory is left out.
Main(file, question, pressed, first, second) ==
  IF file # None
    THEN LET text  == extract__text_from_pdf(file)
             shown == ButtonBranch(pressed, question, text, first)
             added == HistoryBranch(InitHistory(session_state), question,
                                    text, second)
         IN  /\ Len(History(added.state)) <= MaxHistory
             /\ uploaded_file' = file
             /\ user_question' = question
             /\ button' = pressed
             /\ pdf_text' = text
             /\ extracted' = ExtractorCalls(file)
             /\ invocations' = shown.calls \o added.calls
             /\ session_state' = added.state
             /\ page' = [view |-> "Document",
                         exception |-> shown.raised \/ added.raised,
                         warning |-> shown.warning,
                         answer |-> shown.answer,
                         chat |-> ChatHistory(History(added.state))]
    ELSE /\ uploaded_file' = None
         /\ user_question' = ""
         /\ button' = FALSE
         /\ pdf_text' = <<>>
         /\ extracted' = <<>>
         /\ invocations' = <<>>
         /\ session_state' = NoDocumentState(session_state)
         /\ page' = [view |-> "NoDocument", exception |-> FALSE,
                     warning |-> FALSE, answer |-> <<>>, chat |-> <<>>]

-----------------------------------------------------------------------------
(* The session: one action per user interaction, each a rerun of main(). *)

\* The page as first loaded: no file, empty session_state.
Init ==
  /\ uploaded_file = None
  /\ user_question = ""
  /\ button = FALSE
  /\ session_state = [k \in {} |-> None]
  /\ pdf_text = <<>>
  /\ extracted = <<>>
  /\ invocations = <<>>
  /\ page = [view |-> "NoDocument", exception |-> FALSE, warning |-> FALSE,
             answer |-> <<>>, chat |-> <<>>]
  /\ trigger = "load"

\* The user picks a file in the uploader, the first or a replacement.
UploadFile ==
  \E file \in Files, second \in Outcomes :
    /\ file # uploaded_file
    /\ Main(file, user_question, FALSE, second, second)
    /\ trigger' = "upload"

\* The user removes the file from the uploader.
RemoveFile ==
  \E second \in Outcomes :
    /\ uploaded_file # None
    /\ Main(None, user_question, FALSE, second, second)
    /\ trigger' = "remove"

\* The user changes the question and presses Enter.
EnterQuestion ==
  \E question \in Questions, second \in Outcomes :
    /\ uploaded_file # None
    /\ question # user_question
    /\ Main(uploaded_file, question, FALSE, second, second)
    /\ trigger' = "enter"

\* The user clicks Get Answer, with the question as it is or as just typed.
ClickGetAnswer ==
  \E question \in Questions, first \in Outcomes, second \in Outcomes :
    /\ uploaded_file # None
    /\ Main(uploaded_file, question, TRUE, first, second)
    /\ trigger' = "click"

\* Any other rerun with the widgets as they are (an edit of the PDF Content
\* text area of line 132, a reload of the page in the same session).
Rerun ==
  \E second \in Outcomes :
    /\ Main(uploaded_file, user_question, FALSE, second, second)
    /\ trigger' = "rerun"

Next ==
  \/ UploadFile
  \/ RemoveFile
  \/ EnterQuestion
  \/ ClickGetAnswer
  \/ Rerun

Spec == Init /\ [][Next]_vars

-----------------------------------------------------------------------------
(* answer_question on its own, on texts of every length around max_length. *)

\* A text of n characters whose neighbours differ.
Text(n) == [i \in 1 .. n |-> <<"a", "b", "c", "d", "e">>[(i % 5) + 1]]

TextLengths == (0 .. max_length + Slack) \cup {3 * max_length + Slack}

InitTruncation ==
  /\ pdf_text \in {Text(n) : n \in TextLengths}
  /\ uploaded_file = None
  /\ user_question = ""
  /\ button = FALSE
  /\ session_state = [k \in {} |-> None]
  /\ extracted = <<>>
  /\ invocations = <<>>
  /\ page = [view |-> "NoDocument", exception |-> FALSE, warning |-> FALSE,
             answer |-> <<>>, chat |-> <<>>]
  /\ trigger = "load"

\* One call answer_question(question, pdf_text, qa_model).
CallAnswerQuestion ==
  \E question \in Questions \ {""}, outcome \in Outcomes :
    LET result == answer_question(question, pdf_text, outcome)
    IN  /\ user_question' = question
        /\ invocations' = result.calls
        /\ page' = [page EXCEPT !.exception = result.raised,
                                !.answer = << [answer |-> result.answer,
                                               confidence |-> result.confidence] >>]
        /\ trigger' = "call"
        /\ UNCHANGED <<uploaded_file, button, session_state, pdf_text,
                       extracted>>

NextTruncation == CallAnswerQuestion

SpecTruncation == InitTruncation /\ [][NextTruncation]_vars

-----------------------------------------------------------------------------
(* Properties. *)

LastQuestion(state) == Get(state, "last_question")

Min(a, b) == IF a <= b THEN a ELSE b

IsPrefix(s, t) == Len(s) <= Len(t) /\ SubSeq(t, 1, Len(s)) = s

\* The string answer_question returns for a model outcome.
Returned(outcome) ==
  IF outcome.raises THEN "Error: " \o outcome.message ELSE outcome.answer

ExpectedChat(history) ==
  LET L == Len(history)
      last == [k \in 1 .. Min(5, L) |->
                 [label |-> L - k + 1,
                  question |-> history[L - k + 1].question,
                  answer |-> history[L - k + 1].answer]]
      Present(e) == e.answer # None
  IN  SelectSeq(last, Present)

C4_ContextTruncation ==
  \A i \in 1 .. Len(invocations) :
    LET context == invocations[i].context
    IN  /\ Len(context) <= 1536
        /\ Len(pdf_text) <= 1536 => context = pdf_text
        /\ Len(pdf_text) > 1536 => Len(context) = 1536
        /\ \A j \in 1 .. Len(context) : context[j] = pdf_text[j]

\* C4 witness: a call on a text of more than 1536 characters.
C4_Witness ==
  /\ trigger = "call"
  /\ Len(pdf_text) = 1537
  /\ Len(invocations) = 1
  /\ Len(invocations[1].context) = 1536

====
